---- MODULE Spec2Model ----
(***************************************************************************)
(* Renderer/glyph compatibility checks of the edit tools of                *)
(* bokeh/models/tools.py: BoxEditTool, PointDrawTool, PolyDrawTool,        *)
(* FreehandDrawTool and PolyEditTool.                                      *)
(*                                                                         *)
(* Python objects are records carrying their class name in `type`; an      *)
(* attribute is a field of the record, so reading an attribute an object   *)
(* does not have is visible as an AttributeError.  A Python str built by   *)
(* formatting is kept as the sequence of the pieces it is built from, so   *)
(* that what a message names can be read back from it.                     *)
(***************************************************************************)
EXTENDS Naturals, Sequences, FiniteSets

\* Longest `renderers` list explored.
MaxLen == 3

(***************************************************************************)
(* Python values                                                           *)
(***************************************************************************)

\* The None object; type(None).__name__ is "NoneType".
None == [type |-> "NoneType"]

\* Concrete glyph classes a renderer may carry.  Rect, Patches and MultiLine
\* are the classes the checks name; Circle is a point-like marker; Quad is a
\* glyph that no edit tool accepts.
GlyphClasses == {"Rect", "Circle", "Patches", "MultiLine", "Quad"}

\* The classes an object of each class is an instance of (its class and the
\* bases of that class).  XYGlyph is the family of the point-like glyphs: the
\* markers and Rect belong to it, Patches, MultiLine and Quad do not.
Bases(cls) ==
    CASE cls = "Rect"      -> {"Rect", "XYGlyph", "Glyph"}
      [] cls = "Circle"    -> {"Circle", "Marker", "XYGlyph", "Glyph"}
      [] cls = "Patches"   -> {"Patches", "Glyph"}
      [] cls = "MultiLine" -> {"MultiLine", "Glyph"}
      [] cls = "Quad"      -> {"Quad", "Glyph"}
      [] OTHER             -> {cls}

\* isinstance(obj, classes): classes is one class or a tuple of classes.
isinstance(obj, classes) == Bases(obj.type) \cap classes # {}

\* type(obj).__name__
TypeName(obj) == obj.type

\* A glyph object of class cls.
Glyph(cls) == [type |-> cls]

\* What the `glyph` property of a GlyphRenderer can hold: a glyph, or None
\* while it is not set.
GlyphValues == {Glyph(c) : c \in GlyphClasses} \cup {None}

\* A renderer of the `renderers` list, or a vertex renderer.
GlyphRenderer(g) == [type |-> "GlyphRenderer", glyph |-> g]

Renderers == {GlyphRenderer(g) : g \in GlyphValues}

\* A str, as the pieces it was built from.
Str(pieces) == [type |-> "str", pieces |-> pieces]

\* sep.join(names)
RECURSIVE join(_, _)
join(sep, names) ==
    IF Len(names) = 0 THEN <<>>
    ELSE IF Len(names) = 1 THEN <<names[1]>>
    ELSE <<names[1], sep>> \o join(sep, Tail(names))

\* type(renderer.glyph).__name__ for renderer in rs
GlyphTypeNames(rs) == [i \in 1..Len(rs) |-> TypeName(rs[i].glyph)]

\* "%s glyph type(s) found." % glyph_types
RenderersMessage(glyph_types) == Str(glyph_types \o <<" glyph type(s) found.">>)

\* "glyph type %s found." % name
VertexMessage(name) == Str(<<"glyph type ", name, " found.">>)

(***************************************************************************)
(* Outcome of a call: it returns a value or raises.                        *)
(***************************************************************************)

Return(v) == [raised |-> "", value |-> v]

Raise(exc) == [raised |-> exc, value |-> None]

\* obj.glyph
GetGlyph(obj) ==
    IF "glyph" \in DOMAIN obj THEN Return(obj.glyph) ELSE Raise("AttributeError")

(***************************************************************************)
(* Error codes                                                             *)
(***************************************************************************)

INCOMPATIBLE_BOX_EDIT_RENDERER == "INCOMPATIBLE_BOX_EDIT_RENDERER"

INCOMPATIBLE_POINT_DRAW_RENDERER == "INCOMPATIBLE_POINT_DRAW_RENDERER"

INCOMPATIBLE_POLY_DRAW_RENDERER == "INCOMPATIBLE_POLY_DRAW_RENDERER"

INCOMPATIBLE_POLY_EDIT_RENDERER == "INCOMPATIBLE_POLY_EDIT_RENDERER"

INCOMPATIBLE_POLY_EDIT_VERTEX_RENDERER == "INCOMPATIBLE_POLY_EDIT_VERTEX_RENDERER"

\* The @error(code) decorator around a check: an exception of the check
\* propagates; a None return gives no diagnostic; any other return gives one
\* diagnostic carrying the code and the returned message.
error(code, outcome) ==
    IF outcome.raised # "" THEN [raised |-> outcome.raised, diagnostics |-> <<>>]
    ELSE IF outcome.value = None THEN [raised |-> "", diagnostics |-> <<>>]
    ELSE [raised |-> "", diagnostics |-> <<[code |-> code, message |-> outcome.value]>>]

(***************************************************************************)
(* The tools                                                               *)
(***************************************************************************)

ToolKinds ==
    {"BoxEditTool", "PointDrawTool", "PolyDrawTool", "FreehandDrawTool", "PolyEditTool"}

\* The tool classes that declare a vertex_renderer property.
VertexTools == {"PolyDrawTool", "PolyEditTool"}

VARIABLES
    kind,             \* class of the tool
    renderers,        \* tool.renderers
    vertex_renderer,  \* tool.vertex_renderer (None for ever on a class without it)
    result,           \* the latest call on the tool and how it ended
    previous,         \* the result of the check run just before the latest call,
                      \* when the tool was not modified in between
    x_range,          \* RangeTool.x_range of the range tool of the document
    y_range,          \* RangeTool.y_range
    toolbar,          \* the active_* properties of a Toolbar
    hover,            \* the latest CustomJSHover.from_* call and how it ended
    instances,        \* number of CustomJSHover instances created so far
    pscript           \* whether the pscript package can be imported

vars ==
    <<kind, renderers, vertex_renderer, result, previous,
      x_range, y_range, toolbar, hover, instances, pscript>>

\* The state outside the edit tool.
notEditTool == <<x_range, y_range, toolbar, hover, instances, pscript>>

\* The tool as a check method sees it.
Self == [renderers |-> renderers, vertex_renderer |-> vertex_renderer]

(***************************************************************************)
(* Faulty variants of the checks.  None of them is part of the program:    *)
(* each is a check with one slip in it, and a property below that is       *)
(* about the check must fail when the slip is made.                        *)
(***************************************************************************)

\* The poly-draw vertex check without its test for None.
PolyDrawVertexCheckWithoutNoneTest(self) ==
    LET got == GetGlyph(self.vertex_renderer)
        glyph == got.value
    IN  IF got.raised # "" THEN got
        ELSE IF ~isinstance(glyph, {"XYGlyph"})
             THEN Return(VertexMessage(TypeName(glyph)))
             ELSE Return(None)

\* The poly-edit vertex check testing the glyph against the classes of the
\* renderers check instead of XYGlyph.
PolyEditVertexCheckAgainstPolyGlyphs(self) ==
    LET got == GetGlyph(self.vertex_renderer)
        glyph == got.value
    IN  IF got.raised # "" THEN got
        ELSE IF ~isinstance(glyph, {"MultiLine", "Patches"})
             THEN Return(VertexMessage(TypeName(glyph)))
             ELSE Return(None)

\* The poly-edit renderers check without the test that the collected list
\* is not empty.
PolyEditRenderersCheckWithoutEmptyTest(self) ==
    LET incompatible_renderers ==
            SelectSeq(self.renderers,
                      LAMBDA renderer : ~isinstance(renderer.glyph, {"MultiLine", "Patches"}))
        glyph_types == join(", ", GlyphTypeNames(incompatible_renderers))
    IN  Return(RenderersMessage(glyph_types))

\* The poly-draw renderers check accepting MultiLine only.
PolyDrawRenderersCheckMultiLineOnly(self) ==
    LET incompatible_renderers ==
            SelectSeq(self.renderers, LAMBDA renderer : ~isinstance(renderer.glyph, {"MultiLine"}))
        glyph_types == join(", ", GlyphTypeNames(incompatible_renderers))
    IN  IF incompatible_renderers # <<>>
        THEN Return(RenderersMessage(glyph_types))
        ELSE Return(None)

\* A sequence without its repeated elements, first occurrences kept.
RECURSIVE Distinct(_)
Distinct(names) ==
    IF names = <<>> THEN <<>>
    ELSE LET front == Distinct(SubSeq(names, 1, Len(names) - 1))
             last == names[Len(names)]
         IN  IF \E i \in 1..Len(front) : front[i] = last THEN front ELSE Append(front, last)

\* The box-edit renderers check naming each offending glyph type once.
BoxEditRenderersCheckNamingTypesOnce(self) ==
    LET incompatible_renderers ==
            SelectSeq(self.renderers, LAMBDA renderer : ~isinstance(renderer.glyph, {"Rect"}))
        glyph_types == join(", ", Distinct(GlyphTypeNames(incompatible_renderers)))
    IN  IF incompatible_renderers # <<>>
        THEN Return(RenderersMessage(glyph_types))
        ELSE Return(None)

\* The poly-draw renderers check naming the glyph of every renderer of the
\* tool instead of the collected ones.
PolyDrawRenderersCheckNamingAll(self) ==
    LET incompatible_renderers ==
            SelectSeq(self.renderers,
                      LAMBDA renderer : ~isinstance(renderer.glyph, {"MultiLine", "Patches"}))
        glyph_types == join(", ", GlyphTypeNames(self.renderers))
    IN  IF incompatible_renderers # <<>>
        THEN Return(RenderersMessage(glyph_types))
        ELSE Return(None)

\* The box-edit renderers check testing against XYGlyph, as point-draw does.
BoxEditRenderersCheckAgainstXYGlyph(self) ==
    LET incompatible_renderers ==
            SelectSeq(self.renderers, LAMBDA renderer : ~isinstance(renderer.glyph, {"XYGlyph"}))
        glyph_types == join(", ", GlyphTypeNames(incompatible_renderers))
    IN  IF incompatible_renderers # <<>>
        THEN Return(RenderersMessage(glyph_types))
        ELSE Return(None)

\* The point-draw renderers check testing against Rect, as box-edit does.
PointDrawRenderersCheckAgainstRect(self) ==
    LET incompatible_renderers ==
            SelectSeq(self.renderers, LAMBDA renderer : ~isinstance(renderer.glyph, {"Rect"}))
        glyph_types == join(", ", GlyphTypeNames(incompatible_renderers))
    IN  IF incompatible_renderers # <<>>
        THEN Return(RenderersMessage(glyph_types))
        ELSE Return(None)

\* The point-draw renderers check passing over renderers without a glyph.
PointDrawRenderersCheckSkippingUnsetGlyph(self) ==
    LET incompatible_renderers ==
            SelectSeq(self.renderers,
                      LAMBDA renderer : renderer.glyph # None
                                          /\ ~isinstance(renderer.glyph, {"XYGlyph"}))
        glyph_types == join(", ", GlyphTypeNames(incompatible_renderers))
    IN  IF incompatible_renderers # <<>>
        THEN Return(RenderersMessage(glyph_types))
        ELSE Return(None)

\* The poly-edit vertex check naming the base class of the glyph's class.
PolyEditVertexCheckNamingBase(self) ==
    LET got == GetGlyph(self.vertex_renderer)
        glyph == got.value
    IN  IF got.raised # "" THEN got
        ELSE IF ~isinstance(glyph, {"XYGlyph"})
             THEN Return(VertexMessage(IF glyph = None THEN "object" ELSE "Glyph"))
             ELSE Return(None)

\* The poly-draw vertex check giving up on a tool without renderers.
PolyDrawVertexCheckOnlyWithRenderers(self) ==
    IF self.vertex_renderer = None \/ self.renderers = <<>> THEN Return(None)
    ELSE LET got == GetGlyph(self.vertex_renderer)
             glyph == got.value
         IN  IF got.raised # "" THEN got
             ELSE IF ~isinstance(glyph, {"XYGlyph"})
                  THEN Return(VertexMessage(TypeName(glyph)))
                  ELSE Return(None)

\* The freehand-draw renderers check accepting Patches only.
FreehandRenderersCheckPatchesOnly(self) ==
    LET incompatible_renderers ==
            SelectSeq(self.renderers, LAMBDA renderer : ~isinstance(renderer.glyph, {"Patches"}))
        glyph_types == join(", ", GlyphTypeNames(incompatible_renderers))
    IN  IF incompatible_renderers # <<>>
        THEN Return(RenderersMessage(glyph_types))
        ELSE Return(None)

\* The point-draw renderers check reporting a problem once only: run again
\* right after itself it returns nothing.
PointDrawRenderersCheckReportingOnce(self) ==
    LET incompatible_renderers ==
            SelectSeq(self.renderers, LAMBDA renderer : ~isinstance(renderer.glyph, {"XYGlyph"}))
        glyph_types == join(", ", GlyphTypeNames(incompatible_renderers))
    IN  IF incompatible_renderers # <<>> /\ result.call # "_check_compatible_renderers"
        THEN Return(RenderersMessage(glyph_types))
        ELSE Return(None)

(***************************************************************************)
(* The checks.  Each takes the tool (self) and gives the outcome of the    *)
(* undecorated method: a message, None, or an exception.                   *)
(***************************************************************************)

\* BoxEditTool._check_compatible_renderers
BoxEditTool_check_compatible_renderers(self) ==
    LET incompatible_renderers ==
            SelectSeq(self.renderers, LAMBDA renderer : ~isinstance(renderer.glyph, {"Rect"}))
        glyph_types == join(", ", GlyphTypeNames(incompatible_renderers))
    IN  IF incompatible_renderers # <<>>
        THEN Return(RenderersMessage(glyph_types))
        ELSE Return(None)

\* PointDrawTool._check_compatible_renderers
PointDrawTool_check_compatible_renderers(self) ==
    LET incompatible_renderers ==
            SelectSeq(self.renderers, LAMBDA renderer : ~isinstance(renderer.glyph, {"XYGlyph"}))
        glyph_types == join(", ", GlyphTypeNames(incompatible_renderers))
    IN  IF incompatible_renderers # <<>>
        THEN Return(RenderersMessage(glyph_types))
        ELSE Return(None)

\* PolyDrawTool._check_compatible_renderers
PolyDrawTool_check_compatible_renderers(self) ==
    LET incompatible_renderers ==
            SelectSeq(self.renderers,
                      LAMBDA renderer : ~isinstance(renderer.glyph, {"MultiLine", "Patches"}))
        glyph_types == join(", ", GlyphTypeNames(incompatible_renderers))
    IN  IF incompatible_renderers # <<>>
        THEN Return(RenderersMessage(glyph_types))
        ELSE Return(None)

\* PolyDrawTool._check_compatible_vertex_renderer
PolyDrawTool_check_compatible_vertex_renderer(self) ==
    IF self.vertex_renderer = None THEN Return(None)
    ELSE LET got == GetGlyph(self.vertex_renderer)
             glyph == got.value
         IN  IF got.raised # "" THEN got
             ELSE IF ~isinstance(glyph, {"XYGlyph"})
                  THEN Return(VertexMessage(TypeName(glyph)))
                  ELSE Return(None)

\* FreehandDrawTool._check_compatible_renderers
FreehandDrawTool_check_compatible_renderers(self) ==
    LET incompatible_renderers ==
            SelectSeq(self.renderers,
                      LAMBDA renderer : ~isinstance(renderer.glyph, {"MultiLine", "Patches"}))
        glyph_types == join(", ", GlyphTypeNames(incompatible_renderers))
    IN  IF incompatible_renderers # <<>>
        THEN Return(RenderersMessage(glyph_types))
        ELSE Return(None)

\* PolyEditTool._check_compatible_vertex_renderer: the glyph of
\* self.vertex_renderer is read without a test for None.
PolyEditTool_check_compatible_vertex_renderer(self) ==
    LET got == GetGlyph(self.vertex_renderer)
        glyph == got.value
    IN  IF got.raised # "" THEN got
        ELSE IF ~isinstance(glyph, {"XYGlyph"})
             THEN Return(VertexMessage(TypeName(glyph)))
             ELSE Return(None)

\* PolyEditTool._check_compatible_renderers
PolyEditTool_check_compatible_renderers(self) ==
    LET incompatible_renderers ==
            SelectSeq(self.renderers,
                      LAMBDA renderer : ~isinstance(renderer.glyph, {"MultiLine", "Patches"}))
        glyph_types == join(", ", GlyphTypeNames(incompatible_renderers))
    IN  IF incompatible_renderers # <<>>
        THEN Return(RenderersMessage(glyph_types))
        ELSE Return(None)

\* tool._check_compatible_renderers() as decorated, by the class of the tool.
check_compatible_renderers(k, self) ==
    CASE k = "BoxEditTool" ->
            error(INCOMPATIBLE_BOX_EDIT_RENDERER, BoxEditTool_check_compatible_renderers(self))
      [] k = "PointDrawTool" ->
            error(INCOMPATIBLE_POINT_DRAW_RENDERER, PointDrawTool_check_compatible_renderers(self))
      [] k = "PolyDrawTool" ->
            error(INCOMPATIBLE_POLY_DRAW_RENDERER, PolyDrawTool_check_compatible_renderers(self))
      [] k = "FreehandDrawTool" ->
            error(INCOMPATIBLE_POLY_DRAW_RENDERER, FreehandDrawTool_check_compatible_renderers(self))
      [] k = "PolyEditTool" ->
            error(INCOMPATIBLE_POLY_EDIT_RENDERER, PolyEditTool_check_compatible_renderers(self))

\* The vertex checks decorated with the code of the poly-edit renderers check.
VertexCheckUnderRenderersCode(k, self) ==
    CASE k = "PolyDrawTool" ->
            error(INCOMPATIBLE_POLY_EDIT_RENDERER,
                  PolyDrawTool_check_compatible_vertex_renderer(self))
      [] k = "PolyEditTool" ->
            error(INCOMPATIBLE_POLY_EDIT_RENDERER,
                  PolyEditTool_check_compatible_vertex_renderer(self))

\* tool._check_compatible_vertex_renderer() as decorated.
check_compatible_vertex_renderer(k, self) ==
    CASE k = "PolyDrawTool" ->
            error(INCOMPATIBLE_POLY_EDIT_VERTEX_RENDERER,
                  PolyDrawTool_check_compatible_vertex_renderer(self))
      [] k = "PolyEditTool" ->
            error(INCOMPATIBLE_POLY_EDIT_VERTEX_RENDERER,
                  PolyEditTool_check_compatible_vertex_renderer(self))

(***************************************************************************)
(* RangeTool                                                               *)
(***************************************************************************)

\* A Range1d object.
Range1d == [type |-> "Range1d"]

NO_RANGE_TOOL_RANGES == "NO_RANGE_TOOL_RANGES"

\* The range tool as its check method sees it.
RangeSelf == [x_range |-> x_range, y_range |-> y_range]

\* The range check with `or` in the place of `and`.
RangeCheckWithOr(self) ==
    IF self.x_range = None \/ self.y_range = None
    THEN Return(Str(<<"At least one of RangeTool.x_range or RangeTool.y_range must be configured">>))
    ELSE Return(None)

\* RangeTool._check_no_range_tool_ranges
RangeTool_check_no_range_tool_ranges(self) ==
    IF self.x_range = None /\ self.y_range = None
    THEN Return(Str(<<"At least one of RangeTool.x_range or RangeTool.y_range must be configured">>))
    ELSE Return(None)

\* tool._check_no_range_tool_ranges() as decorated.
check_no_range_tool_ranges(self) ==
    error(NO_RANGE_TOOL_RANGES, RangeTool_check_no_range_tool_ranges(self))

(***************************************************************************)
(* Toolbar                                                                 *)
(***************************************************************************)

\* Longest sequence of tools offered to an active_* property.
MaxActive == 2

\* The tool classes of the tools offered to a toolbar.
ToolbarToolClasses ==
    {"PanTool", "WheelZoomTool", "TapTool", "CrosshairTool", "HoverTool", "BoxEditTool"}

\* The classes a tool of each class is an instance of, from the class
\* statements of the module.
ToolBases(cls) ==
    CASE cls = "PanTool"       -> {"PanTool", "Drag", "Gesture", "Tool", "Model"}
      [] cls = "WheelZoomTool" -> {"WheelZoomTool", "Scroll", "Gesture", "Tool", "Model"}
      [] cls = "TapTool"       -> {"TapTool", "Tap", "Gesture", "Tool", "Model"}
      [] cls = "CrosshairTool" -> {"CrosshairTool", "Inspection", "Gesture", "Tool", "Model"}
      [] cls = "HoverTool"     -> {"HoverTool", "Inspection", "Gesture", "Tool", "Model"}
      [] cls = "BoxEditTool"   ->
            {"BoxEditTool", "EditTool", "Drag", "Tap", "Gesture", "Tool", "Model"}
      [] OTHER                 -> {cls}

\* A tool object of class cls.
ToolObject(cls) == [type |-> cls]

ToolObjects == {ToolObject(c) : c \in ToolbarToolClasses}

\* A Python list.
PyList(items) == [type |-> "list", items |-> items]

\* The string "auto".
AutoValue == Str(<<"auto">>)

\* The property type Auto: it accepts "auto" only.
Auto(value) == value = AutoValue

\* The property type Instance(cls): it accepts None and the instances of cls.
Instance(cls, value) == value = None \/ cls \in ToolBases(value.type)

\* The property type Seq(Instance(cls)): it accepts a sequence of values
\* each of which Instance(cls) accepts.
SeqOfInstance(cls, value) ==
    /\ value.type = "list"
    /\ \A i \in 1..Len(value.items) : Instance(cls, value.items[i])

\* active_drag declared as active_inspect is, with a sequence alternative.
ActiveDragAlsoSeq(value) ==
    Auto(value) \/ Instance("Drag", value) \/ SeqOfInstance("Drag", value)

\* Toolbar.active_drag = Either(Auto, Instance(Drag))
active_drag(value) == Auto(value) \/ Instance("Drag", value)

\* Toolbar.active_inspect = Either(Auto, Instance(Inspection), Seq(Instance(Inspection)))
active_inspect(value) ==
    Auto(value) \/ Instance("Inspection", value) \/ SeqOfInstance("Inspection", value)

\* Toolbar.active_scroll = Either(Auto, Instance(Scroll))
active_scroll(value) == Auto(value) \/ Instance("Scroll", value)

\* Toolbar.active_tap = Either(Auto, Instance(Tap))
active_tap(value) == Auto(value) \/ Instance("Tap", value)

\* The properties of a Toolbar that name active tools.
ActiveProperties == {"active_drag", "active_inspect", "active_scroll", "active_tap"}

\* Whether the type of the property `name` accepts `value`.
Accepts(name, value) ==
    CASE name = "active_drag"    -> active_drag(value)
      [] name = "active_inspect" -> active_inspect(value)
      [] name = "active_scroll"  -> active_scroll(value)
      [] name = "active_tap"     -> active_tap(value)

\* The tools an application puts in a list of active tools.
ListedTools == {ToolObject(c) : c \in {"PanTool", "HoverTool", "CrosshairTool"}}

\* The lists of at most n of these tools, each tool listed once.
RECURSIVE ToolSeqs(_)
ToolSeqs(n) ==
    IF n = 0 THEN {<<>>}
    ELSE LET shorter == ToolSeqs(n - 1)
             Unlisted(q) == {t \in ListedTools : \A i \in 1..Len(q) : q[i] # t}
         IN  shorter \cup UNION {{Append(q, t) : t \in Unlisted(q)} : q \in shorter}

\* The values an application may assign to an active_* property.
ActiveValues ==
    {AutoValue, None} \cup ToolObjects \cup {PyList(q) : q \in ToolSeqs(MaxActive)}

\* A Toolbar as constructed without arguments: each Either(Auto, ...) property
\* starts as "auto".
NewToolbar ==
    [active_drag |-> AutoValue, active_inspect |-> AutoValue,
     active_scroll |-> AutoValue, active_tap |-> AutoValue]

(***************************************************************************)
(* CustomJSHover.from_py_func                                              *)
(***************************************************************************)

\* Most parameters of a function passed to from_py_func.
MaxParams == 2

\* Most CustomJSHover instances created in one behaviour.
MaxInstances == 2

\* Parameter names of the functions passed in.
ParamNames == {"a", "b", "c"}

\* The default of a parameter that has none (Parameter.empty).
NoDefault == [type |-> "_empty"]

\* A Bokeh model and a value that is no Bokeh model.
AModel == [type |-> "ColumnDataSource"]

AnInt == [type |-> "int"]

\* Default values a parameter may have.
DefaultValues == {AModel, AnInt, None}

\* isinstance(value, Model)
IsModel(value) == value.type \in {"ColumnDataSource", "Range1d"} \cup ToolbarToolClasses

Param(name, default) == [name |-> name, default |-> default]

\* The parameter lists of length at most n, no name used twice.
RECURSIVE ParamLists(_)
ParamLists(n) ==
    IF n = 0 THEN {<<>>}
    ELSE LET shorter == ParamLists(n - 1)
         IN  shorter \cup
             {Append(q, Param(nm, d)) :
                q \in {x \in shorter : Len(x) = n - 1},
                nm \in ParamNames, d \in DefaultValues \cup {NoDefault}}

DistinctNames(params) ==
    \A i, j \in 1..Len(params) : params[i].name = params[j].name => i = j

\* A function object (def or lambda) with the given parameters.
Function(params) == [type |-> "function", params |-> params]

\* A bound method: callable, with a signature, but no FunctionType.
Method(params) == [type |-> "method", params |-> params]

\* What an application may pass as `code`.
CodeArguments ==
    {Function(q) : q \in {x \in ParamLists(MaxParams) : DistinctNames(x)}}
        \cup {Method(<<>>), Method(<<Param("a", AModel)>>)}
        \cup {Str(<<"return value">>), None, AModel}

\* An exception with its message, and a returned value.
RaiseWith(exc, message) == [raised |-> exc, message |-> message, value |-> None]

ReturnValue(v) == [raised |-> "", message |-> "", value |-> v]

\* isinstance(code, FunctionType)
IsFunctionType(code) == code.type = "function"

\* callable(code)
Callable(code) == code.type \in {"function", "method"}

\* import_required('pscript', ...): the module, or an error when the package
\* cannot be imported.
import_required(installed) ==
    IF installed THEN ReturnValue([type |-> "module"])
    ELSE RaiseWith("RuntimeError",
                   "To use Python functions for CustomJSHover, you need PScript")

\* get_param_info(signature(code)): the names of all parameters, and the
\* defaults of those that have one, both in declaration order.
all_names(code) == [i \in 1..Len(code.params) |-> code.params[i].name]

default_values(code) ==
    LET withDefault == SelectSeq(code.params, LAMBDA prm : prm.default # NoDefault)
    IN  [i \in 1..Len(withDefault) |-> withDefault[i].default]

\* dict(zip(names, values)) losing its last pair.
DictZipDroppingLast(names, values) ==
    LET n == IF Len(names) < Len(values) THEN Len(names) ELSE Len(values)
        m == IF n = 0 THEN 0 ELSE n - 1
    IN  [k \in {names[i] : i \in 1..m} |->
            values[CHOOSE i \in 1..m : names[i] = k /\ \A j \in (i + 1)..m : names[j] # k]]

\* dict(zip(names, values)): names and values paired by position, up to the
\* end of the shorter.
DictZip(names, values) ==
    LET n == IF Len(names) < Len(values) THEN Len(names) ELSE Len(values)
    IN  [k \in {names[i] : i \in 1..n} |->
            values[CHOOSE i \in 1..n : names[i] = k /\ \A j \in (i + 1)..n : names[j] # k]]

\* pscript.py2js(code, 'transformer') + 'return transformer(%s);\n' % ', '.join(all_names)
TransformerCode(names) ==
    Str(<<"transformer = <py2js of the function>;">>
        \o <<"return transformer(">> \o join(", ", names) \o <<");\n">>)

\* pscript_compile without the test that every parameter has a default.
PscriptCompileWithoutKeywordTest(code) ==
    IF default_values(code) # <<>> /\ ~\E i \in 1..Len(default_values(code)) :
                                          IsModel(default_values(code)[i])
    THEN RaiseWith("ValueError", "Default value must be a Bokeh Model.")
    ELSE ReturnValue([code |-> TransformerCode(all_names(code)),
                      func_kwargs |-> DictZip(all_names(code), default_values(code))])

\* pscript_compile(code), the local function of from_py_func
pscript_compile(code) ==
    IF Len(all_names(code)) - Len(default_values(code)) # 0
    THEN RaiseWith("ValueError", "Function may only contain keyword arguments.")
    ELSE IF default_values(code) # <<>> /\ ~\E i \in 1..Len(default_values(code)) :
                                               IsModel(default_values(code)[i])
    THEN RaiseWith("ValueError", "Default value must be a Bokeh Model.")
    ELSE ReturnValue([code |-> TransformerCode(all_names(code)),
                      func_kwargs |-> DictZip(all_names(code), default_values(code))])

\* cls(code=..., args=...): args is a Dict(String, Instance(Model)), so each
\* value must be None or a model; code is a String.
CustomJSHover(code, args) ==
    IF \A k \in DOMAIN args : args[k] = None \/ IsModel(args[k])
    THEN ReturnValue([type |-> "CustomJSHover", code |-> code, args |-> args])
    ELSE RaiseWith("ValueError", "expected an element of Dict(String, Instance(Model))")

\* from_py_func testing callable(code) instead of isinstance(code, FunctionType).
FromPyFuncAcceptingCallables(code, installed) ==
    IF ~Callable(code)
    THEN RaiseWith("ValueError", "CustomJSHover.from_py_func only accepts function objects.")
    ELSE LET imported == import_required(installed)
             compiled == pscript_compile(code)
         IN  IF imported.raised # "" THEN imported
             ELSE IF compiled.raised # "" THEN compiled
             ELSE CustomJSHover(compiled.value.code, compiled.value.func_kwargs)

\* CustomJSHover.from_py_func(code), where `installed` tells whether pscript
\* can be imported
from_py_func(code, installed) ==
    IF ~IsFunctionType(code)
    THEN RaiseWith("ValueError", "CustomJSHover.from_py_func only accepts function objects.")
    ELSE LET imported == import_required(installed)
             compiled == pscript_compile(code)
         IN  IF imported.raised # "" THEN imported
             ELSE IF compiled.raised # "" THEN compiled
             ELSE CustomJSHover(compiled.value.code, compiled.value.func_kwargs)

\* The CoffeeScript snippets an application passes to from_coffeescript.
CoffeeSnippets == {Str(<<"return value">>), Str(<<"return value +">>)}

\* The names an application gives to the entries of `args`.
ArgNames == {"a", "b"}

\* The dicts an application passes as `args`: the default {} among them, and
\* values that are no Models too.
ArgsDicts == UNION {[names -> DefaultValues] : names \in SUBSET ArgNames}

\* What nodejs_compile(code, lang="coffeescript", file="???") may return for
\* a snippet: the JavaScript of the snippet, or the error of the compiler.
NodejsCompileOutcomes(code) ==
    {[code |-> Str(<<"(function() { ">> \o code.pieces \o <<" }).call(this);">>)],
     [error |-> "unexpected end of input"]}

\* from_coffeescript handing the snippet on as it came, not its JavaScript.
FromCoffeescriptKeepingSource(code, args, compiled) ==
    IF "error" \in DOMAIN compiled
    THEN RaiseWith("CompilationError", compiled.error)
    ELSE CustomJSHover(code, args)

\* CustomJSHover.from_coffeescript(code, args), where `compiled` is what
\* nodejs_compile returned
from_coffeescript(code, args, compiled) ==
    IF "error" \in DOMAIN compiled
    THEN RaiseWith("CompilationError", compiled.error)
    ELSE CustomJSHover(compiled.code, args)

\* No from_* call made yet.
NoHoverCall == [method |-> "", code |-> None, raised |-> "", message |-> "", value |-> None]

(***************************************************************************)
(* Operations on a tool                                                    *)
(***************************************************************************)

\* What a call that is no check leaves as its result.
Done(call) == [call |-> call, raised |-> "", diagnostics |-> <<>>]

\* No check result to compare the latest one with.
NoCheck == Done("")

\* The names of the check methods of the edit tools.
CheckCalls == {"_check_compatible_renderers", "_check_compatible_vertex_renderer"}

\* What a check leaves in `previous`: the result of the call before it when
\* that was a check too (the tool is then as that check saw it).
Earlier == IF result.call \in CheckCalls THEN result ELSE NoCheck

\* A check that removes from self.renderers the renderers it reports.
SelfAfterCheckDroppingOffenders(k, self) ==
    IF check_compatible_renderers(k, self).diagnostics = <<>> THEN self
    ELSE [self EXCEPT !.renderers = <<>>]

\* The tool after a check method of class k has run: the methods bind local
\* names only (incompatible_renderers, glyph_types, glyph) and assign nothing
\* to self or to a renderer.
SelfAfterCheck(k, self) == self

\* The state outside the edit tool, as it is before anything is done to it:
\* a RangeTool without ranges, a Toolbar with every active_* at "auto", no
\* from_* call made and no CustomJSHover created.
OutsideEditToolInit ==
    /\ x_range = None
    /\ y_range = None
    /\ toolbar = NewToolbar
    /\ hover = NoHoverCall
    /\ instances = 0
    /\ pscript = TRUE

\* A tool of any of the five classes, as constructed without arguments:
\* renderers is the empty list and vertex_renderer is None.
Init ==
    /\ kind \in ToolKinds
    /\ renderers = <<>>
    /\ vertex_renderer = None
    /\ result = Done("__init__")
    /\ previous = NoCheck
    /\ OutsideEditToolInit

\* An append that enforces compatibility: a renderer the renderers check of
\* the tool would report is refused.
AppendRendererEnforcing(r) ==
    /\ Len(renderers) < MaxLen
    /\ LET refused ==
              check_compatible_renderers(
                  kind, [renderers |-> <<r>>, vertex_renderer |-> None]).diagnostics # <<>>
       IN  /\ renderers' = IF refused THEN renderers ELSE Append(renderers, r)
           /\ result' = [call |-> "renderers.append",
                          raised |-> IF refused THEN "ValueError" ELSE "",
                          diagnostics |-> <<>>]
    /\ previous' = NoCheck
    /\ UNCHANGED <<kind, vertex_renderer>>
    /\ UNCHANGED notEditTool

\* tool.renderers.append(GlyphRenderer(glyph=g))
AppendRenderer(r) ==
    /\ Len(renderers) < MaxLen
    /\ renderers' = Append(renderers, r)
    /\ result' = Done("renderers.append")
    /\ previous' = NoCheck
    /\ UNCHANGED <<kind, vertex_renderer>>
    /\ UNCHANGED notEditTool

\* tool.renderers = rs, with a new list of no or one renderer
SetRenderers(rs) ==
    /\ renderers' = rs
    /\ result' = Done("renderers =")
    /\ previous' = NoCheck
    /\ UNCHANGED <<kind, vertex_renderer>>
    /\ UNCHANGED notEditTool

\* tool.renderers[i].glyph = g
SetGlyph(i, g) ==
    /\ i \in 1..Len(renderers)
    /\ renderers' = [renderers EXCEPT ![i].glyph = g]
    /\ result' = Done("glyph =")
    /\ previous' = NoCheck
    /\ UNCHANGED <<kind, vertex_renderer>>
    /\ UNCHANGED notEditTool

\* tool.vertex_renderer = v, on a class that has the property
SetVertexRenderer(v) ==
    /\ kind \in VertexTools
    /\ vertex_renderer' = v
    /\ result' = Done("vertex_renderer =")
    /\ previous' = NoCheck
    /\ UNCHANGED <<kind, renderers>>
    /\ UNCHANGED notEditTool

\* tool._check_compatible_renderers()
CheckCompatibleRenderers ==
    /\ LET r == check_compatible_renderers(kind, Self)
       IN  result' = [call |-> "_check_compatible_renderers",
                      raised |-> r.raised, diagnostics |-> r.diagnostics]
    /\ previous' = Earlier
    /\ renderers' = SelfAfterCheck(kind, Self).renderers
    /\ vertex_renderer' = SelfAfterCheck(kind, Self).vertex_renderer
    /\ UNCHANGED kind
    /\ UNCHANGED notEditTool

\* tool._check_compatible_vertex_renderer()
CheckCompatibleVertexRenderer ==
    /\ kind \in VertexTools
    /\ LET r == check_compatible_vertex_renderer(kind, Self)
       IN  result' = [call |-> "_check_compatible_vertex_renderer",
                      raised |-> r.raised, diagnostics |-> r.diagnostics]
    /\ previous' = Earlier
    /\ renderers' = SelfAfterCheck(kind, Self).renderers
    /\ vertex_renderer' = SelfAfterCheck(kind, Self).vertex_renderer
    /\ UNCHANGED kind
    /\ UNCHANGED notEditTool

Next ==
    \/ \E r \in Renderers : AppendRenderer(r)
    \/ \E rs \in {<<>>} \cup {<<r>> : r \in Renderers} : SetRenderers(rs)
    \/ \E i \in 1..MaxLen, g \in GlyphValues : SetGlyph(i, g)
    \/ \E v \in {None} \cup Renderers : SetVertexRenderer(v)
    \/ CheckCompatibleRenderers
    \/ CheckCompatibleVertexRenderer

Spec == Init /\ [][Next]_vars

(***************************************************************************)
(* A document holding the edit tool and a RangeTool, and the validation    *)
(* pass over it.                                                           *)
(***************************************************************************)

\* Longest `renderers` list of the edit tool of the document.
DocMaxLen == 1

\* The _check* methods of a model, in the order of dir(model).
ChecksOf(model, k) ==
    IF model = "RangeTool" THEN <<[model |-> "RangeTool", check |-> "_check_no_range_tool_ranges"]>>
    ELSE IF k \in VertexTools
    THEN <<[model |-> k, check |-> "_check_compatible_renderers"],
           [model |-> k, check |-> "_check_compatible_vertex_renderer"]>>
    ELSE <<[model |-> k, check |-> "_check_compatible_renderers"]>>

\* One decorated check of the pass, on the tool it belongs to.
RunCheck(item, k, self, rangeSelf) ==
    CASE item.check = "_check_no_range_tool_ranges"       -> check_no_range_tool_ranges(rangeSelf)
      [] item.check = "_check_compatible_renderers"       -> check_compatible_renderers(k, self)
      [] item.check = "_check_compatible_vertex_renderer" -> check_compatible_vertex_renderer(k, self)

\* The checks of `todo` run one after the other, their diagnostics
\* collected; an exception of a check ends the pass with that exception, and
\* nothing is reported.
RECURSIVE RunChecks(_, _, _, _, _, _)
RunChecks(todo, ran, collected, k, self, rangeSelf) ==
    IF todo = <<>> THEN [raised |-> "", diagnostics |-> collected, ran |-> ran]
    ELSE LET r == RunCheck(Head(todo), k, self, rangeSelf)
         IN  IF r.raised # ""
             THEN [raised |-> r.raised, diagnostics |-> <<>>, ran |-> ran]
             ELSE RunChecks(Tail(todo), Append(ran, Head(todo)),
                            collected \o r.diagnostics, k, self, rangeSelf)

\* check_integrity(models): every _check* method of every model, model by
\* model in the order given.
check_integrity(models, k, self, rangeSelf) ==
    LET todo == ChecksOf(models[1], k) \o ChecksOf(models[2], k)
    IN  RunChecks(todo, <<>>, <<>>, k, self, rangeSelf)

\* tool.x_range = v
SetXRange(v) ==
    /\ x_range' = v
    /\ result' = Done("x_range =")
    /\ previous' = NoCheck
    /\ UNCHANGED <<kind, renderers, vertex_renderer, y_range, toolbar, hover, instances, pscript>>

\* tool.y_range = v
SetYRange(v) ==
    /\ y_range' = v
    /\ result' = Done("y_range =")
    /\ previous' = NoCheck
    /\ UNCHANGED <<kind, renderers, vertex_renderer, x_range, toolbar, hover, instances, pscript>>

\* tool._check_no_range_tool_ranges()
CheckNoRangeToolRanges ==
    /\ LET r == check_no_range_tool_ranges(RangeSelf)
       IN  result' = [call |-> "_check_no_range_tool_ranges",
                      raised |-> r.raised, diagnostics |-> r.diagnostics]
    /\ previous' = NoCheck
    /\ UNCHANGED <<kind, renderers, vertex_renderer>>
    /\ UNCHANGED notEditTool

\* check_integrity over the two tools of the document, in either order.
CheckIntegrity(models) ==
    /\ LET r == check_integrity(models, kind, Self, RangeSelf)
       IN  result' = [call |-> "check_integrity", raised |-> r.raised,
                      diagnostics |-> r.diagnostics, ran |-> r.ran]
    /\ previous' = NoCheck
    /\ UNCHANGED <<kind, renderers, vertex_renderer>>
    /\ UNCHANGED notEditTool

\* The edit tool of the document gets a renderer.
DocAppendRenderer(r) == Len(renderers) < DocMaxLen /\ AppendRenderer(r)

NextDoc ==
    \/ \E r \in Renderers : DocAppendRenderer(r)
    \/ \E v \in {None} \cup Renderers : SetVertexRenderer(v)
    \/ \E v \in {None, Range1d} : SetXRange(v)
    \/ \E v \in {None, Range1d} : SetYRange(v)
    \/ CheckNoRangeToolRanges
    \/ \E models \in {<<kind, "RangeTool">>, <<"RangeTool", kind>>} : CheckIntegrity(models)

SpecDoc == Init /\ [][NextDoc]_vars

(***************************************************************************)
(* A Toolbar and the assignments to its active_* properties.               *)
(***************************************************************************)

\* toolbar.<name> = value: the value is stored when the type of the property
\* accepts it, and refused with a ValueError otherwise.
SetActive(name, value) ==
    /\ toolbar' = IF Accepts(name, value) THEN [toolbar EXCEPT ![name] = value] ELSE toolbar
    /\ result' = [call |-> name, value |-> value,
                  raised |-> IF Accepts(name, value) THEN "" ELSE "ValueError",
                  diagnostics |-> <<>>]
    /\ previous' = NoCheck
    /\ UNCHANGED <<kind, renderers, vertex_renderer, x_range, y_range, hover, instances, pscript>>

NextToolbar == \E name \in ActiveProperties, value \in ActiveValues : SetActive(name, value)

InitToolbar == Init /\ kind = "BoxEditTool"

SpecToolbar == InitToolbar /\ [][NextToolbar]_vars

(***************************************************************************)
(* Calls of CustomJSHover.from_py_func.                                    *)
(***************************************************************************)

\* CustomJSHover.from_py_func(code)
FromPyFunc(code) ==
    /\ instances < MaxInstances
    /\ LET r == from_py_func(code, pscript)
       IN  /\ hover' = [method |-> "from_py_func", code |-> code, raised |-> r.raised,
                        message |-> r.message, value |-> r.value]
           /\ instances' = IF r.raised = "" THEN instances + 1 ELSE instances
    /\ UNCHANGED <<kind, renderers, vertex_renderer, result, previous,
                   x_range, y_range, toolbar, pscript>>

\* CustomJSHover.from_coffeescript(code, args)
FromCoffeescript(code, args) ==
    /\ instances < MaxInstances
    /\ \E compiled \in NodejsCompileOutcomes(code) :
          LET r == from_coffeescript(code, args, compiled)
          IN  /\ hover' = [method |-> "from_coffeescript", code |-> code, args |-> args,
                           compiled |-> compiled, raised |-> r.raised,
                           message |-> r.message, value |-> r.value]
              /\ instances' = IF r.raised = "" THEN instances + 1 ELSE instances
    /\ UNCHANGED <<kind, renderers, vertex_renderer, result, previous,
                   x_range, y_range, toolbar, pscript>>

NextHover ==
    \/ \E code \in CodeArguments : FromPyFunc(code)
    \/ \E code \in CoffeeSnippets, args \in ArgsDicts : FromCoffeescript(code, args)

\* The pscript package is installed or it is not.
InitHover ==
    /\ kind = "BoxEditTool"
    /\ renderers = <<>>
    /\ vertex_renderer = None
    /\ result = Done("__init__")
    /\ previous = NoCheck
    /\ x_range = None
    /\ y_range = None
    /\ toolbar = NewToolbar
    /\ hover = NoHoverCall
    /\ instances = 0
    /\ pscript \in BOOLEAN

SpecHover == InitHover /\ [][NextHover]_vars

(***************************************************************************)
(* Vocabulary of the properties                                            *)
(***************************************************************************)

\* The latest call was the renderers check / the vertex-renderer check, so
\* `result` is its result on the tool as it now is.
RanRenderersCheck == result.call = "_check_compatible_renderers"

RanVertexCheck == result.call = "_check_compatible_vertex_renderer"

RanACheck == RanRenderersCheck \/ RanVertexCheck

NoDiagnostic == result.diagnostics = <<>>

\* The concrete glyph classes of the XYGlyph family.
XYGlyphFamily == {c \in GlyphClasses : "XYGlyph" \in Bases(c)}

\* The table of allowed glyph variants per tool kind.
AllowedVariants(k) ==
    CASE k = "BoxEditTool"      -> {"Rect"}
      [] k = "PointDrawTool"    -> XYGlyphFamily
      [] k = "PolyDrawTool"     -> {"Patches", "MultiLine"}
      [] k = "FreehandDrawTool" -> {"Patches", "MultiLine"}
      [] k = "PolyEditTool"     -> {"Patches", "MultiLine"}

\* Positions in `renderers` of the renderers whose glyph is not one of `allowed`.
OffendersAmong(allowed) == {i \in 1..Len(renderers) : renderers[i].glyph.type \notin allowed}

Offenders == OffendersAmong(AllowedVariants(kind))

\* The position of the n-th offender in encounter order.
NthOf(positions, n) ==
    CHOOSE i \in positions : Cardinality({j \in positions : j <= i}) = n

\* The glyph type names of the renderers at `positions`, in list order.
NamesAt(positions) ==
    [n \in 1..Cardinality(positions) |-> renderers[NthOf(positions, n)].glyph.type]

\* The pieces of the message of the one diagnostic.
Pieces == result.diagnostics[1].message.pieces

\* The glyph type names a renderers-check message lists: every other piece,
\* before the suffix.
NamesListed ==
    IF NoDiagnostic THEN <<>> ELSE [n \in 1..(Len(Pieces) \div 2) |-> Pieces[2 * n - 1]]

Names(seq) == {seq[i] : i \in 1..Len(seq)}

\* The glyph type names of the whole `renderers` list.
RendererTypes == [i \in 1..Len(renderers) |-> renderers[i].glyph.type]

(***************************************************************************)
(* Properties                                                              *)
(***************************************************************************)

\* C1 (as claimed): no compatibility check ever raises; each returns no
\* diagnostic or one diagnostic.  PolyEditTool's vertex check breaks it.
C1_ChecksNeverRaise ==
    RanACheck => result.raised = "" /\ Len(result.diagnostics) <= 1

\* C2 (as claimed): the vertex check of a poly-edit tool whose
\* vertex_renderer is None returns with no diagnostic, whatever renderers
\* holds.  The code raises AttributeError instead.
C2_PolyEditUnsetVertexPasses ==
    (kind = "PolyEditTool" /\ vertex_renderer = None /\ RanVertexCheck)
        => result.raised = "" /\ NoDiagnostic

\* C3: the vertex check of a poly-draw tool whose vertex_renderer is None
\* returns with no diagnostic, whatever renderers holds.
C3_PolyDrawUnsetVertexPasses ==
    (kind = "PolyDrawTool" /\ vertex_renderer = None /\ RanVertexCheck)
        => result.raised = "" /\ NoDiagnostic

C3_Witness ==
    /\ kind = "PolyDrawTool" /\ vertex_renderer = None /\ RanVertexCheck
    /\ Offenders # {}
    /\ result.raised = "" /\ NoDiagnostic

\* C4: with vertex_renderer set, the vertex check of poly-draw and poly-edit
\* returns a diagnostic exactly when the glyph of that renderer is outside
\* the XYGlyph family, and the message names the type of that glyph and
\* nothing else, whatever renderers holds.
C4_VertexCheckOfSetRenderer ==
    (kind \in VertexTools /\ vertex_renderer # None /\ RanVertexCheck)
        => /\ result.raised = ""
           /\ NoDiagnostic <=> vertex_renderer.glyph.type \in XYGlyphFamily
           /\ ~NoDiagnostic =>
                /\ Len(result.diagnostics) = 1
                /\ Pieces = <<"glyph type ", vertex_renderer.glyph.type, " found.">>

C4_Witness ==
    /\ kind = "PolyEditTool" /\ RanVertexCheck
    /\ vertex_renderer = GlyphRenderer(Glyph("Patches"))
    /\ RendererTypes = <<"Quad", "Circle">>
    /\ Len(result.diagnostics) = 1
    /\ Pieces[2] = "Patches"

\* C5 (as claimed): whatever check runs on a tool whose renderers list is
\* empty returns no diagnostic.
C5_EmptyRenderersNoDiagnosticAnyCheck ==
    (renderers = <<>> /\ RanACheck) => NoDiagnostic

\* C5 (amended): the renderers check of a tool of any kind whose renderers
\* list is empty returns with no diagnostic.
C5_EmptyRenderersPassRenderersCheck ==
    (renderers = <<>> /\ RanRenderersCheck) => result.raised = "" /\ NoDiagnostic

C5_Witness ==
    /\ renderers = <<>> /\ RanRenderersCheck
    /\ kind = "PolyEditTool"
    /\ vertex_renderer = GlyphRenderer(Glyph("Patches"))
    /\ NoDiagnostic

\* C6: for every tool kind the renderers check returns a diagnostic exactly
\* when some renderer of the list has a glyph outside the allowed set of the
\* kind; a list of allowed glyphs only gives none.
C6_DiagnosticIffSomeOffender ==
    RanRenderersCheck => result.raised = "" /\ (~NoDiagnostic <=> Offenders # {})

C6_Witness ==
    /\ RanRenderersCheck /\ kind = "PolyDrawTool"
    /\ RendererTypes = <<"Patches", "MultiLine", "Patches">>
    /\ NoDiagnostic

\* C7: the message of a renderers-check diagnostic is the glyph type names
\* of the offending renderers, one per offender in list order and with
\* repetitions kept, joined by ", " and followed by " glyph type(s) found.".
C7_MessageListsOffendersInOrder ==
    (RanRenderersCheck /\ ~NoDiagnostic)
        => LET n == Cardinality(Offenders)
               expected == NamesAt(Offenders)
           IN  /\ Len(Pieces) = 2 * n
               /\ \A k \in 1..n : Pieces[2 * k - 1] = expected[k]
               /\ \A k \in 1..(n - 1) : Pieces[2 * k] = ", "
               /\ Pieces[2 * n] = " glyph type(s) found."

C7_Witness ==
    /\ RanRenderersCheck /\ kind = "BoxEditTool"
    /\ RendererTypes = <<"Quad", "Circle", "Quad">>
    /\ Pieces = <<"Quad", ", ", "Circle", ", ", "Quad", " glyph type(s) found.">>

\* C8: one renderers check gives at most one diagnostic, whose message lists
\* glyph types of offending renderers only; a poly-draw tool with renderers
\* [Patches, Circle, MultiLine] gets exactly one diagnostic, naming Circle
\* and neither Patches nor MultiLine.
C8_OneDiagnosticNamingOffendersOnly ==
    RanRenderersCheck
        => /\ Len(result.diagnostics) <= 1
           /\ Names(NamesListed) \subseteq {renderers[i].glyph.type : i \in Offenders}
           /\ (kind = "PolyDrawTool" /\ RendererTypes = <<"Patches", "Circle", "MultiLine">>)
                => /\ Len(result.diagnostics) = 1
                   /\ NamesListed = <<"Circle">>

C8_Witness ==
    /\ RanRenderersCheck /\ kind = "PolyDrawTool"
    /\ RendererTypes = <<"Patches", "Circle", "MultiLine">>
    /\ Len(result.diagnostics) = 1
    /\ "Circle" \in Names(Pieces)
    /\ "Patches" \notin Names(Pieces) /\ "MultiLine" \notin Names(Pieces)

\* C9: the box-edit renderers check flags exactly the renderers whose glyph
\* is not a Rect, and one non-Rect renderer alone gives a diagnostic whose
\* message contains the type name of its glyph.
C9_BoxEditFlagsNonRect ==
    (kind = "BoxEditTool" /\ RanRenderersCheck)
        => /\ NamesListed = NamesAt(OffendersAmong({"Rect"}))
           /\ (Len(renderers) = 1 /\ renderers[1].glyph.type # "Rect")
                => ~NoDiagnostic /\ renderers[1].glyph.type \in Names(Pieces)

C9_Witness ==
    /\ kind = "BoxEditTool" /\ RanRenderersCheck
    /\ RendererTypes = <<"Circle">>
    /\ "Circle" \in Names(Pieces)

\* C10: the point-draw renderers check flags exactly the renderers whose
\* glyph is outside the XYGlyph family: Patches and MultiLine are flagged,
\* a point-like glyph such as Circle is not.
C10_PointDrawFlagsNonXYGlyph ==
    (kind = "PointDrawTool" /\ RanRenderersCheck)
        => /\ NamesListed = NamesAt(OffendersAmong(XYGlyphFamily))
           /\ \A i \in 1..Len(renderers) :
                /\ renderers[i].glyph.type \in {"Patches", "MultiLine"}
                     => renderers[i].glyph.type \in Names(NamesListed)
                /\ renderers[i].glyph.type = "Circle" => "Circle" \notin Names(NamesListed)

C10_Witness ==
    /\ kind = "PointDrawTool" /\ RanRenderersCheck
    /\ RendererTypes = <<"Patches", "Circle", "MultiLine">>
    /\ NamesListed = <<"Patches", "MultiLine">>

\* The three tool kinds that edit Patches and MultiLine glyphs.
PolyKinds == {"PolyDrawTool", "FreehandDrawTool", "PolyEditTool"}

\* C11: on the same renderers list the renderers checks of poly-draw,
\* freehand-draw and poly-edit agree: all three return no diagnostic, or all
\* three return one with the same message (so the same renderers flagged).
C11_PolyKindsAgree ==
    (RanRenderersCheck /\ kind \in PolyKinds)
        => \A k \in PolyKinds :
             LET other == check_compatible_renderers(k, Self)
             IN  /\ other.raised = result.raised
                 /\ Len(other.diagnostics) = Len(result.diagnostics)
                 /\ ~NoDiagnostic
                      => other.diagnostics[1].message = result.diagnostics[1].message

C11_Witness ==
    /\ RanRenderersCheck /\ kind = "FreehandDrawTool"
    /\ RendererTypes = <<"MultiLine", "Circle", "Patches">>
    /\ NamesListed = <<"Circle">>
    /\ check_compatible_renderers("PolyEditTool", Self).diagnostics[1].message
         = result.diagnostics[1].message

C13_ChecksAreReadOnly ==
    [][result'.call \in CheckCalls => UNCHANGED <<kind, renderers, vertex_renderer>>]_vars

C13_Witness ==
    /\ RanRenderersCheck /\ kind = "PolyEditTool"
    /\ RendererTypes = <<"Quad", "Patches", "Circle">>
    /\ vertex_renderer = GlyphRenderer(Glyph("Circle"))
    /\ NamesListed = <<"Quad", "Circle">>

\* The calls that assign to the tool or to one of its renderers.
AssignCalls == {"renderers.append", "renderers =", "glyph =", "vertex_renderer ="}

\* C15: an assignment is accepted whatever glyphs it brings, and a later
\* check reports by the configuration the tool then has: the renderers check
\* lists the offenders of the present list, the vertex check reports the
\* present vertex renderer, whatever was configured or validated before.
C15_CheckedNotEnforced ==
    /\ result.call \in AssignCalls => result.raised = ""
    /\ RanRenderersCheck
         => /\ Len(result.diagnostics) = (IF Offenders = {} THEN 0 ELSE 1)
            /\ NamesListed = NamesAt(Offenders)
    /\ RanVertexCheck
         => (~NoDiagnostic <=>
                /\ vertex_renderer # None
                /\ vertex_renderer.glyph.type \notin XYGlyphFamily)

C15_Witness ==
    /\ RanRenderersCheck /\ kind = "PolyDrawTool"
    /\ previous.call = "_check_compatible_vertex_renderer"
    /\ previous.diagnostics # <<>>
    /\ RendererTypes = <<"Quad", "Patches">>
    /\ NamesListed = <<"Quad">>

\* The tool field an error code stands for.
FieldOfCode(code) ==
    IF code = "INCOMPATIBLE_POLY_EDIT_VERTEX_RENDERER" THEN "vertex_renderer" ELSE "renderers"

\* C16: the code of a diagnostic tells which field failed: a diagnostic of a
\* renderers check and one of the vertex check of the same tool never carry
\* the same code, and each carries the offending glyph type name(s).
C16_DiagnosticTellsField ==
    (RanACheck /\ ~NoDiagnostic)
        => LET d == result.diagnostics[1]
           IN  /\ FieldOfCode(d.code) = (IF RanVertexCheck THEN "vertex_renderer" ELSE "renderers")
               /\ (previous.call \in CheckCalls \ {result.call} /\ previous.diagnostics # <<>>)
                    => previous.diagnostics[1].code # d.code
               /\ RanRenderersCheck
                    => NamesListed # <<>> /\ Names(NamesListed) \subseteq Names(RendererTypes)
               /\ RanVertexCheck => Pieces[2] = vertex_renderer.glyph.type

C16_Witness ==
    /\ RanVertexCheck /\ kind = "PolyEditTool"
    /\ previous.call = "_check_compatible_renderers"
    /\ previous.diagnostics # <<>>
    /\ ~NoDiagnostic
    /\ result.diagnostics[1].code # previous.diagnostics[1].code


(***************************************************************************)
(* The validation pass and the RangeTool                                   *)
(***************************************************************************)

\* The checks a pass over the document has to run.
ChecksOfDocument == Len(ChecksOf(kind, kind)) + Len(ChecksOf("RangeTool", kind))

\* C14: a validation pass over the tools of a document always completes: no
\* check makes it fail, and every check of every tool has been run when it
\* ends.
C14_PassAlwaysCompletes ==
    result.call = "check_integrity" =>
        /\ result.raised = ""
        /\ Len(result.ran) = ChecksOfDocument

\* C17: the range check of a RangeTool returns a diagnostic if and only if
\* x_range and y_range are both None; with one of them or both configured it
\* returns none.
C17_RangeDiagnosticIffBothUnset ==
    result.call = "_check_no_range_tool_ranges" =>
        /\ result.raised = ""
        /\ (x_range = None /\ y_range = None) =>
               /\ Len(result.diagnostics) = 1
               /\ result.diagnostics[1].code = NO_RANGE_TOOL_RANGES
        /\ (x_range # None \/ y_range # None) => result.diagnostics = <<>>

C17_Witness ==
    /\ result.call = "_check_no_range_tool_ranges"
    /\ x_range = Range1d
    /\ y_range = None
    /\ result.diagnostics = <<>>

(***************************************************************************)
(* The active tools of a Toolbar                                           *)
(***************************************************************************)

\* "auto", no tool, or one tool of the gesture.
AtMostOneTool(value, gesture) ==
    \/ value = AutoValue
    \/ value = None
    \/ value \in ToolObjects /\ gesture \in ToolBases(value.type)

\* A list of inspectors.
InspectorList(value) ==
    /\ value.type = "list"
    /\ \A i \in 1..Len(value.items) : "Inspection" \in ToolBases(value.items[i].type)

\* C18: active_drag, active_scroll and active_tap of a Toolbar each hold
\* "auto", no tool or one tool of their gesture, a list assigned to one of
\* them being refused; a list of inspectors assigned to active_inspect is
\* stored, whatever the other active tools are.
C18_OneActiveToolPerGesture ==
    /\ AtMostOneTool(toolbar.active_drag, "Drag")
    /\ AtMostOneTool(toolbar.active_scroll, "Scroll")
    /\ AtMostOneTool(toolbar.active_tap, "Tap")
    /\ (result.call \in {"active_drag", "active_scroll", "active_tap"}
            /\ result.value.type = "list") => result.raised = "ValueError"
    /\ (result.call = "active_inspect" /\ InspectorList(result.value)) =>
            /\ result.raised = ""
            /\ toolbar.active_inspect = result.value

C18_Witness ==
    /\ toolbar.active_inspect = PyList(<<ToolObject("HoverTool"), ToolObject("CrosshairTool")>>)
    /\ toolbar.active_drag = ToolObject("PanTool")
    /\ toolbar.active_scroll = ToolObject("WheelZoomTool")
    /\ toolbar.active_tap = ToolObject("TapTool")
    /\ result.call = "active_drag"
    /\ result.value = PyList(<<ToolObject("PanTool")>>)
    /\ result.raised = "ValueError"

(***************************************************************************)
(* CustomJSHover.from_py_func                                              *)
(***************************************************************************)

\* C19: from_py_func called with anything that is not a function raises
\* ValueError, returns no CustomJSHover and leaves the number of instances
\* as it was.
C19_NonFunctionRejected ==
    [][(hover'.method = "from_py_func" /\ ~IsFunctionType(hover'.code)) =>
            /\ hover'.raised = "ValueError"
            /\ hover'.value = None
            /\ instances' = instances]_vars

C19_Witness ==
    /\ hover.method = "from_py_func"
    /\ hover.code = Method(<<Param("a", AModel)>>)
    /\ hover.raised = "ValueError"
    /\ instances = 1

\* A function one of whose parameters has no default value.
LacksADefault(code) ==
    /\ IsFunctionType(code)
    /\ \E i \in 1..Len(code.params) : code.params[i].default = NoDefault

\* A function without parameters.
NoParameters(code) == IsFunctionType(code) /\ code.params = <<>>

\* What from_py_func owes a function: the keyword-arguments ValueError and
\* no instance when a parameter lacks a default, an instance when there is
\* no parameter.
KeywordArgumentsRule ==
    /\ LacksADefault(hover.code) =>
            /\ hover.raised = "ValueError"
            /\ hover.message = "Function may only contain keyword arguments."
            /\ hover.value = None
    /\ NoParameters(hover.code) =>
            /\ hover.raised = ""
            /\ hover.value.type = "CustomJSHover"

\* C20 as stated: from_py_func raises ValueError("Function may only contain
\* keyword arguments.") and creates no instance for every function with a
\* parameter lacking a default, and accepts a function with zero parameters.
C20_KeywordArgumentsOnly ==
    hover.method = "from_py_func" => KeywordArgumentsRule

\* C20 amended: the same, when the pscript package can be imported.
C20_KeywordArgumentsOnlyWithPscript ==
    (hover.method = "from_py_func" /\ pscript) => KeywordArgumentsRule

C20_Witness ==
    /\ pscript
    /\ hover.method = "from_py_func"
    /\ hover.code = Function(<<Param("a", NoDefault), Param("b", AModel)>>)
    /\ hover.raised = "ValueError"
    /\ hover.message = "Function may only contain keyword arguments."
    /\ instances = 1

\* A function all of whose parameters have a default value.
KeywordArgumentsOnly(code) == IsFunctionType(code) /\ ~LacksADefault(code)

\* C21: with pscript importable and a function of keyword arguments only,
\* from_py_func succeeds only if every default value is a Model, and a
\* default value that is no Model gets ValueError("Default value must be a
\* Bokeh Model.").
C21_DefaultsMustBeModels ==
    (hover.method = "from_py_func" /\ pscript /\ KeywordArgumentsOnly(hover.code)) =>
        LET defaults == default_values(hover.code)
        IN  /\ hover.raised = "" => \A i \in 1..Len(defaults) : IsModel(defaults[i])
            /\ (\E i \in 1..Len(defaults) : ~IsModel(defaults[i])) =>
                    /\ hover.raised = "ValueError"
                    /\ hover.message = "Default value must be a Bokeh Model."

\* The compilation result carries an error.
CompilationFailed == "error" \in DOMAIN hover.compiled

\* No instance, but a CompilationError with the error of the compiler.
RaisedCompilationError ==
    /\ hover.raised = "CompilationError"
    /\ hover.message = hover.compiled.error
    /\ hover.value = None

\* An instance with the compiled JavaScript as code and the args passed in.
ReturnedCompiledInstance ==
    /\ hover.raised = ""
    /\ hover.value.type = "CustomJSHover"
    /\ hover.value.code = hover.compiled.code
    /\ hover.value.args = hover.args

\* Args that the `args` property takes: each value a Model or None.
ArgsOfModels(args) == \A k \in DOMAIN args : args[k] = None \/ IsModel(args[k])

CodesNamedAfter(k) ==
    CASE k = "BoxEditTool"      -> {"INCOMPATIBLE_BOX_EDIT_RENDERER"}
      [] k = "PointDrawTool"    -> {"INCOMPATIBLE_POINT_DRAW_RENDERER"}
      [] k = "PolyDrawTool"     -> {"INCOMPATIBLE_POLY_DRAW_RENDERER"}
      [] k = "FreehandDrawTool" -> {}
      [] k = "PolyEditTool"     -> {"INCOMPATIBLE_POLY_EDIT_RENDERER",
                                    "INCOMPATIBLE_POLY_EDIT_VERTEX_RENDERER"}

\* C23: the code of a renderers diagnostic is one under which no tool of
\* another kind reports its renderers diagnostic, and the code of a vertex
\* diagnostic is one named after the kind of the tool that was checked.
C23_CodeIdentifiesKind ==
    (RanACheck /\ ~NoDiagnostic) =>
        LET code == result.diagnostics[1].code
        IN  /\ RanRenderersCheck =>
                \A k \in ToolKinds \ {kind} :
                    LET other == check_compatible_renderers(k, Self)
                    IN  other.diagnostics # <<>> => other.diagnostics[1].code # code
            /\ RanVertexCheck => code \in CodesNamedAfter(kind)

\* Positions in `renderers` of the renderers whose glyph is unset.
UnsetGlyphs == {i \in 1..Len(renderers) : renderers[i].glyph = None}

\* How many offenders the message lists up to position i of `renderers`.
RankAmong(positions, i) == Cardinality({j \in positions : j <= i})

\* C24: a renderer whose glyph is None is incompatible for every tool kind.
\* The renderers check of a list holding one returns a diagnostic, does not
\* raise, and lists it as one offender at its place among the offenders,
\* under the type name of None; the vertex check of a set vertex_renderer
\* whose glyph is None returns a diagnostic too.
C24_UnsetGlyphIsIncompatible ==
    /\ (RanRenderersCheck /\ UnsetGlyphs # {}) =>
            /\ result.raised = ""
            /\ Len(result.diagnostics) = 1
            /\ Len(NamesListed) = Cardinality(Offenders)
            /\ \A i \in UnsetGlyphs :
                    /\ i \in Offenders
                    /\ NamesListed[RankAmong(Offenders, i)] = "NoneType"
    /\ (RanVertexCheck /\ vertex_renderer # None /\ vertex_renderer.glyph = None) =>
            /\ result.raised = ""
            /\ Len(result.diagnostics) = 1
            /\ Pieces = <<"glyph type ", "NoneType", " found.">>

C24_Witness ==
    /\ RanRenderersCheck /\ kind = "PointDrawTool"
    /\ renderers = <<GlyphRenderer(Glyph("Circle")), GlyphRenderer(None),
                     GlyphRenderer(Glyph("Quad"))>>
    /\ NamesListed = <<"NoneType", "Quad">>

\* The names of families and parent variants: the bases of the glyph
\* classes that are no concrete glyph class themselves.
FamilyNames == UNION {Bases(c) : c \in GlyphClasses} \ GlyphClasses

\* C25: the checks against the XYGlyph family (point-draw renderers check,
\* vertex checks) let every concrete variant of the family pass, and a
\* message names glyphs by their own concrete type name, never by the name
\* of a family or of a parent variant.
C25_FamilyDecidesVariantIsNamed ==
    /\ (RanRenderersCheck /\ kind = "PointDrawTool") =>
            /\ (\A i \in 1..Len(renderers) : renderers[i].glyph.type \in XYGlyphFamily)
                    => NoDiagnostic
            /\ \A i \in 1..Len(renderers) :
                    renderers[i].glyph.type \in XYGlyphFamily => i \notin Offenders
    /\ (RanVertexCheck /\ vertex_renderer # None
            /\ vertex_renderer.glyph.type \in XYGlyphFamily) => NoDiagnostic
    /\ (RanRenderersCheck /\ ~NoDiagnostic) =>
            /\ NamesListed = NamesAt(Offenders)
            /\ Names(NamesListed) \cap FamilyNames = {}
    /\ (RanVertexCheck /\ ~NoDiagnostic) =>
            /\ Pieces[2] = vertex_renderer.glyph.type
            /\ Pieces[2] \notin FamilyNames

C25_Witness ==
    /\ RanRenderersCheck /\ kind = "PointDrawTool"
    /\ RendererTypes = <<"Circle", "Rect", "Quad">>
    /\ NamesListed = <<"Quad">>

(***************************************************************************)
(* The two checks of poly-draw and poly-edit                               *)
(***************************************************************************)

\* What a check gave, without the name of the call.
Outcome(r) == [raised |-> r.raised, diagnostics |-> r.diagnostics]

\* Other contents of `renderers`: no renderer, one, or two.
OtherRenderers ==
    {<<>>} \cup {<<r>> : r \in Renderers} \cup {<<r, q>> : r, q \in Renderers}

\* Other values of `vertex_renderer`.
OtherVertexRenderers == {None} \cup Renderers

\* C26: on a poly-draw or poly-edit tool the renderers check gives what it
\* gave for every other value of vertex_renderer, and the vertex check gives
\* what it gave for every other content of renderers.
C26_ChecksAreIndependent ==
    /\ (RanRenderersCheck /\ kind \in VertexTools) =>
            \A v \in OtherVertexRenderers :
                Outcome(check_compatible_renderers(kind, [Self EXCEPT !.vertex_renderer = v]))
                    = Outcome(result)
    /\ RanVertexCheck =>
            \A rs \in OtherRenderers :
                Outcome(check_compatible_vertex_renderer(kind, [Self EXCEPT !.renderers = rs]))
                    = Outcome(result)

C26_Witness ==
    /\ RanVertexCheck /\ kind = "PolyDrawTool"
    /\ vertex_renderer = GlyphRenderer(Glyph("Patches"))
    /\ RendererTypes = <<"Patches", "MultiLine">>
    /\ previous.call = "_check_compatible_renderers"
    /\ previous.diagnostics = <<>>
    /\ ~NoDiagnostic

\* The messages of the diagnostics of a check result.
Messages(r) == [i \in 1..Len(r.diagnostics) |-> r.diagnostics[i].message]

\* C27: on the same vertex_renderer (unset, of the XYGlyph family, or other)
\* the vertex checks of poly-draw and poly-edit end the same way: both with
\* no diagnostic, or both with a diagnostic of the same message.
C27_VertexChecksEquivalent ==
    RanVertexCheck =>
        \A k \in VertexTools :
            LET other == check_compatible_vertex_renderer(k, Self)
            IN  /\ other.raised = result.raised
                /\ Messages(other) = Messages(result)

(***************************************************************************)
(* The instance from_py_func returns                                       *)
(***************************************************************************)

\* The parameters of the function passed to from_py_func.
Params == hover.code.params

\* The pieces of the generated code from the call of the translated function
\* on.
CallPieces ==
    LET pieces == hover.value.code.pieces
        start == CHOOSE i \in 1..Len(pieces) : pieces[i] = "return transformer("
    IN  SubSeq(pieces, start, Len(pieces))

\* C28: the instance a successful from_py_func returns has one entry of args
\* per parameter of the function, the name of the parameter mapped to its
\* default value, and its code calls the translated function with the names
\* of all parameters in declaration order.
C28_ArgsAndCodeFollowParameters ==
    (hover.method = "from_py_func" /\ hover.raised = "") =>
        /\ hover.value.type = "CustomJSHover"
        /\ DOMAIN hover.value.args = {Params[i].name : i \in 1..Len(Params)}
        /\ \A i \in 1..Len(Params) : hover.value.args[Params[i].name] = Params[i].default
        /\ \E i \in 1..Len(hover.value.code.pieces) :
                hover.value.code.pieces[i] = "return transformer("
        /\ Len(CallPieces) = (IF Params = <<>> THEN 2 ELSE 2 * Len(Params) + 1)
        /\ \A i \in 1..Len(Params) : CallPieces[2 * i] = Params[i].name
        /\ \A i \in 1..(Len(Params) - 1) : CallPieces[2 * i + 1] = ", "
        /\ CallPieces[Len(CallPieces)] = ");\n"

C28_Witness ==
    /\ hover.method = "from_py_func"
    /\ hover.code = Function(<<Param("b", AModel), Param("a", AModel)>>)
    /\ hover.raised = ""
    /\ hover.value.args = [a |-> AModel, b |-> AModel]
    /\ CallPieces = <<"return transformer(", "b", ", ", "a", ");\n">>

====
